---- MODULE Spec2Model ----
(***************************************************************************)
(* Model of universe_agent: the `research` command (main.py), the          *)
(* ResearchAgent (agents/researcher.py) with its four tools (tools/*.py)   *)
(* and the VectorKnowledgeBase it saves to (storage/vector_store.py);      *)
(* then the report synthesizer, the store's own operations, the            *)
(* PersonaAgent (agents/persona.py) and runs that share one persist        *)
(* directory, each under a specification of its own.                       *)
(*                                                                         *)
(* A text is a sequence of tokens (strings).  The reasoning loop is the    *)
(* AgentExecutor that ResearchAgent.__init__ builds with max_iterations=10 *)
(* and handle_parsing_errors=True over a ReAct agent; its steps are        *)
(* modelled as that executor runs them with these settings (early stopping *)
(* left at its default, "force").                                          *)
(***************************************************************************)
EXTENDS Integers, Sequences, FiniteSets, TLC

\* ------------------------------------------------------------------ bounds
NSubjects == 1
NFinalTexts == 1
MaxWords == 3
MaxChunks == 2
MaxDeletes == 1
MaxCalls == 3
NClients == 2

\* ------------------------------------------------------- program constants
max_iterations == 10
SummaryLimit == 500


\* --------------------------------------------------------------- the texts
None == <<"None">>
SubjectNames == <<"Alice", "Bob", "Carol", "Dave">>
SubjectTypeNames == <<"character", "work", "character", "work">>
\* the (subject, --type) pairs the command is run with
Requests ==
    {[subject |-> <<SubjectNames[i]>>, subject_type |-> SubjectTypeNames[i]] :
        i \in 1..NSubjects}

FinalBodies ==
    << <<"Alice", "is", "a", "mage.", "See", "https://a.com/x,">>,
       <<"Sources:", "http://b.com)", "https://a.com/x">>,
       <<"plain", "summary">> >>
\* what the model may write after "Final Answer:", nothing at all included
FinalTexts == {<<>>} \cup {FinalBodies[i] : i \in 1..NFinalTexts}

ToolNames == <<"community_search", "google_search", "twitter_search", "web_scraper">>
\* the names a completion may put after "Action:"
ActionNames == {ToolNames[i] : i \in 1..Len(ToolNames)} \cup {"wikipedia"}

\* what the network does to one tool call
NetOutcomes == {"ok", "empty", "timeout", "upstream"}

\* the words of the findings the report is built from: plain words, URLs
\* with and without trailing punctuation, a word that starts with "http" and
\* is no URL, a URL inside brackets, and the line break
SourceWords ==
    {"see", "and", "https://a.com/x,", "https://a.com/x", "http://b.com)",
     "http://b.com).,", "httpd", "(https://a.com/x)", "\n"}
LinkedText ==
    <<"see", "https://a.com/x,", "https://a.com/x", "and", "http://b.com)">>
\* a text longer than the summary
LongText == [i \in 1..(SummaryLimit + 1) |-> "x"]
ReportTexts ==
    UNION {[1..n -> SourceWords] : n \in 0..MaxWords} \cup {LinkedText, LongText}

StoppedOutput == <<"Agent stopped due to iteration limit or time limit.">>
NoFindings == <<"No findings available">>

\* ---------------------------------------------------------------- the tools
ToolReturn(text) == [raised |-> "none", obs |-> text]
ToolRaise(exc) == [raised |-> exc, obs |-> <<>>]

\* WebScraper.scrape: every failure of the request becomes a WebPage whose
\* content is the error text and whose metadata holds "error".
scrape(url, net) ==
    IF net \in {"timeout", "upstream"}
    THEN [content |-> <<"Error scraping">> \o url \o <<net>>, error |-> TRUE,
          title |-> <<"None">>]
    ELSE IF net = "empty"
    THEN [content |-> <<>>, error |-> FALSE, title |-> <<"None">>]
    ELSE [content |-> <<"page", "text">>, error |-> FALSE, title |-> <<"Page">>]

scrape_wrapper(url, net) ==
    ToolReturn(<<"Title:">> \o scrape(url, net).title \o <<"Content:">>
               \o scrape(url, net).content)

\* CommunityScraper.search_namuwiki / search_communities
search_communities(query, net) ==
    LET page == scrape(<<"https://namu.wiki/w/">> \o query, net)
        found == ~page.error /\ net # "empty"
    IN  IF found
        THEN ToolReturn(<<"Community search results for">> \o query \o page.content)
        ELSE ToolReturn(<<"No community information found for:">> \o query)

\* GoogleSearcher.search: the ImportError is raised before the try block
GoogleSearch(query, net, GOOGLESEARCH_AVAILABLE) ==
    IF ~GOOGLESEARCH_AVAILABLE THEN [raised |-> "ImportError", urls |-> <<>>]
    ELSE IF net = "ok" THEN [raised |-> "none", urls |-> <<"https://a.com/x">>]
    ELSE [raised |-> "none", urls |-> <<>>]

search_with_snippets(query, net, GOOGLESEARCH_AVAILABLE) ==
    LET results == GoogleSearch(query, net, GOOGLESEARCH_AVAILABLE)
    IN  IF results.raised # "none" THEN ToolRaise(results.raised)
        ELSE IF results.urls = <<>>
        THEN ToolReturn(<<"No results found for:">> \o query)
        ELSE ToolReturn(<<"Search results for">> \o query \o results.urls)

\* TwitterSearcher.search_formatted: both unavailability cases return text
search_formatted(query, net, TWEEPY_AVAILABLE, client) ==
    IF ~TWEEPY_AVAILABLE
    THEN ToolReturn(<<"Twitter search is not available. Install tweepy">>)
    ELSE IF ~client
    THEN ToolReturn(<<"Twitter API not configured.">>)
    ELSE IF net = "ok"
    THEN ToolReturn(<<"Twitter search results for">> \o query \o <<"@fan", "tweet">>)
    ELSE ToolReturn(<<"No tweets found for:">> \o query)

\* TwitterSearcher.__init__: a client exists only with tweepy and a token
TwitterClient(TWEEPY_AVAILABLE, bearer_token) == TWEEPY_AVAILABLE /\ bearer_token

\* ResearchAgent._create_tools: none of the four factories raises, so the
\* two except clauses never run and all four tools are registered, in order
create_tools == ToolNames

\* ------------------------------------------------------ the reasoning loop
\* What one completion of the ReAct prompt holds: an "Action:/Action Input:"
\* pair, a "Final Answer:" marker, both, or neither.
\* (tool and tool_input are "" and <<>> without an action, text is <<>>
\* without a final answer)
ActionOutputs(subject) ==
    {[hasAction |-> TRUE, hasFinal |-> FALSE, tool |-> t,
      tool_input |-> subject, text |-> <<>>] : t \in ActionNames}
FinalOutputs ==
    {[hasAction |-> FALSE, hasFinal |-> TRUE, tool |-> "",
      tool_input |-> <<>>, text |-> x] : x \in FinalTexts}
BothOutputs(subject) ==
    {[hasAction |-> TRUE, hasFinal |-> TRUE, tool |-> t,
      tool_input |-> subject, text |-> FinalBodies[1]] : t \in ActionNames}
NeitherOutput ==
    [hasAction |-> FALSE, hasFinal |-> FALSE, tool |-> "",
     tool_input |-> <<>>, text |-> <<>>]
LLMOutputs(subject) ==
    ActionOutputs(subject) \cup FinalOutputs \cup BothOutputs(subject)
        \cup {NeitherOutput}

\* the ReAct output parser of create_react_agent: an action together with a
\* final answer, or neither of them, is a parsing error
ParseReAct(out) ==
    IF out.hasAction /\ out.hasFinal
    THEN [kind |-> "error", tool |-> "", tool_input |-> <<>>,
          output |-> <<>>, send_to_llm |-> FALSE]
    ELSE IF out.hasAction
    THEN [kind |-> "action", tool |-> out.tool, tool_input |-> out.tool_input,
          output |-> <<>>, send_to_llm |-> FALSE]
    ELSE IF out.hasFinal
    THEN [kind |-> "finish", tool |-> "", tool_input |-> <<>>,
          output |-> out.text, send_to_llm |-> FALSE]
    ELSE [kind |-> "error", tool |-> "", tool_input |-> <<>>,
          output |-> <<>>, send_to_llm |-> TRUE]

\* AgentExecutor(max_iterations=10): the loop condition
ShouldContinue(n) == n < max_iterations

\* AgentExecutor(handle_parsing_errors=True)
mut_handle_parsing_errors == FALSE
handle_parsing_errors == TRUE

\* the observation a parsing error is turned into
ParseErrorObservation(parsed) ==
    IF parsed.send_to_llm
    THEN <<"Invalid Format: Missing 'Action:' after 'Thought:'">>
    ELSE <<"Invalid or incomplete response">>

\* the observation for an action that names no registered tool
InvalidToolObservation(name) ==
    <<name, "is not a valid tool, try one of">> \o create_tools

InRegistry(name) == \E i \in 1..Len(create_tools) : create_tools[i] = name

\* Tool.run of the registered tool `name`: the tool's function, whose
\* exception (if any) propagates out of the executor
RunTool(name, input, net, e) ==
    CASE name = "community_search" -> search_communities(input, net)
      [] name = "google_search" ->
            search_with_snippets(input, net, e.GOOGLESEARCH_AVAILABLE)
      [] name = "twitter_search" ->
            search_formatted(input, net, e.TWEEPY_AVAILABLE,
                             TwitterClient(e.TWEEPY_AVAILABLE, e.twitter_bearer_token))
      [] OTHER -> scrape_wrapper(input, net)

\* the executor's handling of one action: a registered tool is run, any
\* other name yields the not-a-valid-tool observation
mut_PerformAgentActionUnknownRaises(name, input, net, e) ==
    IF InRegistry(name)
    THEN [ran |-> TRUE] @@ RunTool(name, input, net, e)
    ELSE [ran |-> FALSE] @@ ToolRaise("KeyError")
PerformAgentAction(name, input, net, e) ==
    IF InRegistry(name)
    THEN [ran |-> TRUE] @@ RunTool(name, input, net, e)
    ELSE [ran |-> FALSE] @@ ToolReturn(InvalidToolObservation(name))

\* the executor's answer when the loop is left at the iteration cap
\* (early_stopping_method is not set: "force")
mut_StoppedResponseLastObservation(last) ==
    [output |-> IF last # <<>> THEN last ELSE StoppedOutput]
return_stopped_response(last) == [output |-> StoppedOutput]

\* research(): findings = result.get("output", "No findings available")
mut_GetOutputWrongKey(result) == NoFindings
GetOutput(result) ==
    IF "output" \in DOMAIN result THEN result.output ELSE NoFindings

\* ---------------------------------------------------- the report synthesizer
Min(a, b) == IF a < b THEN a ELSE b
\* findings[:n]
Prefix(text, n) == SubSeq(text, 1, Min(Len(text), n))

\* word.rstrip(".,;)") on a token: the tokens of the texts that end in one
\* of these characters, with the token they are stripped to
RStrip(word) ==
    CASE word = "https://a.com/x," -> "https://a.com/x"
      [] word = "http://b.com)" -> "http://b.com"
      [] word = "http://b.com).," -> "http://b.com"
      [] word = "(https://a.com/x)" -> "(https://a.com/x"
      [] word = "mage." -> "mage"
      [] OTHER -> word

\* word.startswith("http")
StartsWithHttp(word) ==
    word \in {"https://a.com/x,", "https://a.com/x", "http://b.com)",
              "http://b.com", "http://b.com).,", "httpd"}

\* "http://" in word or "https://" in word
ContainsScheme(word) ==
    word \in {"https://a.com/x,", "https://a.com/x", "http://b.com)",
              "http://b.com", "http://b.com).,", "(https://a.com/x)"}

\* findings.split("\n"): the lines of a text, "\n" being a token of its own
\* (as a set: the order of the lines does not reach the result)
LineBreaks(text) ==
    {0, Len(text) + 1} \cup {i \in 1..Len(text) : text[i] = "\n"}
SplitLines(text) ==
    {SubSeq(text, a + 1, b - 1) :
        <<a, b>> \in {r \in LineBreaks(text) \X LineBreaks(text) :
                        /\ r[1] < r[2]
                        /\ \A m \in LineBreaks(text) :
                              ~(r[1] < m /\ m < r[2])}}

\* the sources one line gives: none unless "http://" or "https://" is in the
\* line, and then the stripped words of line.split() that start with "http"
mut_LineSourcesNoSchemeTest(line) ==
    {RStrip(line[i]) : i \in {j \in 1..Len(line) : StartsWithHttp(line[j])}}
LineSources(line) ==
    IF \E k \in 1..Len(line) : ContainsScheme(line[k])
    THEN {RStrip(line[i]) : i \in {j \in 1..Len(line) : StartsWithHttp(line[j])}}
    ELSE {}

\* ResearchAgent._extract_sources, as a set (the code returns list(set(...)))
extract_sources(findings) ==
    UNION {LineSources(line) : line \in SplitLines(findings)}

\* self.llm.invoke(structuring_prompt): it raises, or it returns a response,
\* the JSON the prompt asks for or anything else
StructResponses ==
    {<<"{\"summary\":", "a", "mage", ",", "\"sections\":", "[]", "}">>,
     <<"Sorry,", "no", "JSON">>}
StructCompletions ==
    {[raised |-> TRUE, content |-> <<>>]}
        \cup {[raised |-> FALSE, content |-> c] : c \in StructResponses}

\* ResearchAgent._create_structured_report: the completion's response is
\* assigned and never read; a completion that raises changes the summary only
mut_create_structured_report_except(subject, subject_type, findings, completion) ==
    [subject |-> subject, subject_type |-> subject_type,
     summary |-> Prefix(findings, SummaryLimit),
     sections |-> << [title |-> "Research Findings", content |-> findings] >>,
     sources |-> extract_sources(findings)]
mut_create_structured_report_cuts(subject, subject_type, findings, completion) ==
    [subject |-> subject, subject_type |-> subject_type,
     summary |-> IF completion.raised
                 THEN <<"Research findings for">> \o subject
                 ELSE Prefix(findings, SummaryLimit),
     sections |-> << [title |-> "Research Findings",
                      content |-> Prefix(findings, SummaryLimit)] >>,
     sources |-> extract_sources(findings)]
mut_create_structured_report_reads(subject, subject_type, findings, completion) ==
    [subject |-> subject, subject_type |-> subject_type,
     summary |-> IF completion.raised
                 THEN <<"Research findings for">> \o subject
                 ELSE Prefix(completion.content, SummaryLimit),
     sections |-> << [title |-> "Research Findings", content |-> findings] >>,
     sources |-> extract_sources(findings)]
create_structured_report(subject, subject_type, findings, completion) ==
    [subject |-> subject, subject_type |-> subject_type,
     summary |-> IF completion.raised
                 THEN <<"Research findings for">> \o subject
                 ELSE Prefix(findings, SummaryLimit),
     sections |-> << [title |-> "Research Findings", content |-> findings] >>,
     sources |-> extract_sources(findings)]

\* whether the try block of _create_structured_report catches the completion's
\* exception (except Exception)
mut_StructuringCatches == FALSE
StructuringCatches == TRUE

\* ------------------------------------------------------ the knowledge store
\* text_splitter.split_text on a text shorter than one chunk: the text itself,
\* or no chunk for the empty text
split_text(content) == IF content = <<>> THEN <<>> ELSE <<content>>

\* VectorKnowledgeBase.add_knowledge, lines 62-69: the metadata of each chunk,
\* {"character_name": ..., "source": ..., **knowledge.metadata}: a key of
\* knowledge.metadata replaces the key of the same name written before it
chunk_metadata(knowledge) ==
    knowledge.metadata @@ [character_name |-> knowledge.character_name,
                           source |-> knowledge.source]

\* VectorKnowledgeBase.add_knowledge: one index entry per chunk (entry: the
\* CharacterKnowledge the chunk was split from, kept for the claims only)
add_knowledge(index, knowledge) ==
    index \o [i \in 1..Len(split_text(knowledge.content)) |->
                [text |-> split_text(knowledge.content)[i],
                 metadata |-> chunk_metadata(knowledge),
                 entry |-> knowledge]]

\* ResearchAgent._save_to_knowledge_base: the entry it builds (the timestamp
\* is datetime.now().isoformat(), one value here)
mut_ResearchKnowledgeUnnamed(subject, findings) ==
    [character_name |-> <<"unknown">>, source |-> "research_agent",
     content |-> findings, metadata |-> [timestamp |-> "now"]]
ResearchKnowledge(subject, findings) ==
    [character_name |-> subject, source |-> "research_agent",
     content |-> findings, metadata |-> [timestamp |-> "now"]]

\* ------------------------------------------------------------- the command
\* main.research: `except Exception` catches every exception the agent raises
mut_CaughtValueErrorOnly(exc) == exc = "ValueError"
Caught(exc) == TRUE

\* ------------------------------------------------------------------- state
VARIABLES
    env,               \* the command line and the installation (fixed per run)
    pc,                \* where the command is
    iterations,        \* AgentExecutor: iterations
    last_observation,  \* AgentExecutor: the observation of the last of its
                       \* intermediate_steps (<<>> without one); the steps
                       \* are the executor's own and are gone when it returns
    findings,          \* research(): findings
    report,            \* research(): report (<<>> until it is built)
    kb_index,          \* the Chroma collection: its chunks, in insertion order
    persist_calls,     \* how many times persist() has returned
    exported,          \* the reports the exporter has written
    exception,         \* the exception travelling to main's handler
    raised_in,         \* the stage that raised it
    console,           \* what main has printed at its end
    exit_code,         \* the command's exit status (-1 while it runs)
    llm_calls,         \* completion calls made inside the loop
    struct_calls,      \* completion calls made to structure the report
    tool_calls,        \* calls of registered tools
    llm_failures,      \* the failed completion calls of the loop, in order
    final_emitted,     \* a completion of the loop held "Final Answer:"
    struct_raised,     \* the structuring completion raised
    kb_log,            \* the calls _save_to_knowledge_base has completed on
                       \* the store, in order
    returned,          \* what the last call on the store returned
    stdout,            \* the lines the store has printed
    persona,           \* the PersonaAgent (<<>> until it is constructed)
    prompt,            \* the prompt of the agent's last completion call
    persona_calls,     \* completion calls the PersonaAgent has made
    turns,             \* the chat calls that returned since the last reset
    disk,              \* the persist directory: the collection as flushed
    clients            \* the VectorKnowledgeBase instances of concurrent runs

vars == <<env, pc, iterations, last_observation, findings, report,
          kb_index, persist_calls, exported, exception, raised_in, console,
          exit_code, llm_calls, struct_calls, tool_calls, llm_failures,
          final_emitted, struct_raised, kb_log, returned, stdout, persona,
          prompt, persona_calls, turns, disk, clients>>

loopVars == <<iterations, last_observation, llm_calls, tool_calls,
              llm_failures, final_emitted>>
storeVars == <<kb_index, persist_calls, kb_log>>
\* the state of the store's own commands, of the persona agent and of
\* concurrent runs: the research command touches none of it
kbVars == <<returned, stdout>>
personaVars == <<persona, prompt, persona_calls, turns>>
clientVars == <<disk, clients>>
otherVars == <<kbVars, personaVars, clientVars>>
mainVars == <<console, exit_code>>

Envs ==
    {r @@ i : r \in Requests,
              i \in [no_save : BOOLEAN, api_key : BOOLEAN,
                     GOOGLESEARCH_AVAILABLE : BOOLEAN,
                     TWEEPY_AVAILABLE : BOOLEAN,
                     twitter_bearer_token : BOOLEAN]}

\* nothing has been called on the store, no PersonaAgent is constructed and
\* no other run is under way
NoStoreCall == returned = <<>> /\ stdout = <<>>
NoPersona == persona = <<>> /\ prompt = <<>> /\ persona_calls = 0 /\ turns = <<>>
NoClients == disk = <<>> /\ clients = <<>>

Init ==
    /\ env \in Envs
    /\ pc = "main"
    /\ iterations = 0
    /\ last_observation = <<>>
    /\ findings = None
    /\ report = <<>>
    /\ kb_index = <<>>
    /\ persist_calls = 0
    /\ exported = <<>>
    /\ exception = "none"
    /\ raised_in = "none"
    /\ console = <<>>
    /\ exit_code = -1
    /\ llm_calls = 0
    /\ struct_calls = 0
    /\ tool_calls = 0
    /\ llm_failures = <<>>
    /\ final_emitted = FALSE
    /\ struct_raised = FALSE
    /\ kb_log = <<>>
    /\ NoStoreCall
    /\ NoPersona
    /\ NoClients

Raise(exc, stage) ==
    /\ exception' = exc
    /\ raised_in' = stage
    /\ pc' = "raised"

\* ResearchAgent.__init__: either provider's branch raises ValueError when
\* the key of that provider is not set (api_key: the chosen provider's key)
ApiKeySet(e) == e.api_key

\* main.research, line 62: save_to_kb=not no_save
mut_save_to_kb_always(e) == TRUE
mut_save_to_kb_never(e) == FALSE
save_to_kb(e) == ~e.no_save

\* main.research, lines 53-56: agent = ResearchAgent(llm_provider=llm)
MainInitAgent ==
    /\ pc = "main"
    /\ IF ApiKeySet(env)
       THEN pc' = "loop" /\ UNCHANGED <<exception, raised_in>>
       ELSE Raise("ValueError", "init")
    /\ UNCHANGED <<otherVars, env, loopVars, findings, report, storeVars, exported,
                   mainVars, struct_calls, struct_raised>>

\* One pass of the executor's loop whose completion call raises: nothing
\* around agent_executor.invoke catches it or calls again.
ExecutorPlanRaises ==
    /\ pc = "loop"
    /\ ShouldContinue(iterations)
    /\ \E kind \in {"transient", "fatal"} :
          llm_failures' = Append(llm_failures, kind)
    /\ llm_calls' = llm_calls + 1
    /\ Raise("CompletionError", "loop_llm")
    /\ last_observation' = <<>>
    /\ UNCHANGED <<otherVars, env, iterations, tool_calls, final_emitted, findings,
                   report, storeVars, exported, mainVars, struct_calls,
                   struct_raised>>

\* One pass of the loop on the completion `out`, the network doing `net` to
\* the tool call (if one is made):
\*   a final answer   -> the executor returns it;
\*   an action        -> the tool's text (or the not-a-valid-tool text) is
\*                       the observation and the pass counts; an exception
\*                       of the tool leaves the executor;
\*   a parsing error  -> with handle_parsing_errors the error text is the
\*                       observation and the pass counts; else ValueError.
ExecutorPass(out, net) ==
    LET parsed == ParseReAct(out)
        res == PerformAgentAction(parsed.tool, parsed.tool_input, net, env)
    IN  /\ pc = "loop"
        /\ ShouldContinue(iterations)
        /\ llm_calls' = llm_calls + 1
        /\ final_emitted' = (final_emitted \/ out.hasFinal)
        /\ CASE parsed.kind = "finish" ->
                  /\ findings' = GetOutput([input |-> env.subject,
                                            output |-> parsed.output])
                  /\ pc' = "structure"
                  /\ last_observation' = <<>>
                  /\ UNCHANGED <<iterations, tool_calls, exception, raised_in>>
             [] parsed.kind = "action" ->
                  /\ tool_calls' = IF res.ran THEN tool_calls + 1 ELSE tool_calls
                  /\ IF res.raised = "none"
                     THEN /\ last_observation' = res.obs
                          /\ iterations' = iterations + 1
                          /\ UNCHANGED <<pc, exception, raised_in>>
                     ELSE /\ Raise(res.raised, "loop_tool")
                          /\ last_observation' = <<>>
                          /\ UNCHANGED iterations
                  /\ UNCHANGED findings
             [] OTHER ->
                  /\ IF handle_parsing_errors
                     THEN /\ last_observation' = ParseErrorObservation(parsed)
                          /\ iterations' = iterations + 1
                          /\ UNCHANGED <<pc, exception, raised_in>>
                     ELSE /\ Raise("ValueError", "loop_parse")
                          /\ last_observation' = <<>>
                          /\ UNCHANGED iterations
                  /\ UNCHANGED <<findings, tool_calls>>
        /\ UNCHANGED <<otherVars, env, llm_failures, report, storeVars, exported,
                       mainVars, struct_calls, struct_raised>>

\* a pass whose completion parses as a final answer
ExecutorFinish ==
    \E out \in LLMOutputs(env.subject) :
        ParseReAct(out).kind = "finish" /\ ExecutorPass(out, "ok")

\* a pass whose completion names a registered tool
ExecutorToolStep ==
    \E out \in LLMOutputs(env.subject), net \in NetOutcomes :
        /\ ParseReAct(out).kind = "action"
        /\ InRegistry(ParseReAct(out).tool)
        /\ ExecutorPass(out, net)

\* a pass whose completion names a tool that is not registered
ExecutorInvalidTool ==
    \E out \in LLMOutputs(env.subject) :
        /\ ParseReAct(out).kind = "action"
        /\ ~InRegistry(ParseReAct(out).tool)
        /\ ExecutorPass(out, "ok")

\* a pass whose completion does not parse
ExecutorParseError ==
    \E out \in LLMOutputs(env.subject) :
        ParseReAct(out).kind = "error" /\ ExecutorPass(out, "ok")

\* The loop condition fails: the executor returns its stopped response.
ExecutorStopped ==
    /\ pc = "loop"
    /\ ~ShouldContinue(iterations)
    /\ findings' = GetOutput([input |-> env.subject] @@
                             return_stopped_response(last_observation))
    /\ pc' = "structure"
    /\ last_observation' = <<>>
    /\ UNCHANGED <<otherVars, env, iterations, llm_calls, tool_calls, llm_failures,
                   final_emitted, report, storeVars, exported, exception,
                   raised_in, mainVars, struct_calls, struct_raised>>

\* research(), line 181: the report is built with one more completion call,
\* which may raise; the try block decides whether that reaches the caller.
CreateStructuredReportWith(completion) ==
    /\ pc = "structure"
    /\ struct_raised' = completion.raised
    /\ IF completion.raised /\ ~StructuringCatches
       THEN /\ Raise("CompletionError", "structure")
            /\ UNCHANGED report
       ELSE /\ report' = << create_structured_report(
                               env.subject, env.subject_type, findings,
                               completion) >>
            /\ pc' = "save"
            /\ UNCHANGED <<exception, raised_in>>
    /\ struct_calls' = struct_calls + 1
    /\ UNCHANGED <<otherVars, env, loopVars, findings, storeVars, exported, mainVars>>

CreateStructuredReport ==
    \E completion \in StructCompletions : CreateStructuredReportWith(completion)

\* research(), lines 184-185 with save_to_kb: add_knowledge, then persist.
\* Either call may fail in the store; nothing in research() catches it.
SaveToKnowledgeBase ==
    /\ pc = "save"
    /\ save_to_kb(env)
    /\ \E outcome \in {"ok", "add_fails", "persist_fails"} :
          /\ kb_index' = IF outcome = "add_fails" THEN kb_index
                         ELSE add_knowledge(kb_index,
                                  ResearchKnowledge(env.subject, findings))
          /\ persist_calls' = IF outcome = "ok" THEN persist_calls + 1
                              ELSE persist_calls
          /\ kb_log' = kb_log \o
               CASE outcome = "add_fails" -> <<>>
                 [] outcome = "persist_fails" ->
                      << <<"add_knowledge",
                           ResearchKnowledge(env.subject, findings)>> >>
                 [] OTHER ->
                      << <<"add_knowledge",
                           ResearchKnowledge(env.subject, findings)>>,
                         <<"persist">> >>
          /\ IF outcome = "ok"
             THEN pc' = "export" /\ UNCHANGED <<exception, raised_in>>
             ELSE Raise("StoreError", "save")
    /\ UNCHANGED <<otherVars, env, loopVars, findings, report, exported, mainVars,
                   struct_calls, struct_raised>>

\* research(), line 184 without save_to_kb (--no-save)
SkipSave ==
    /\ pc = "save"
    /\ ~save_to_kb(env)
    /\ pc' = "export"
    /\ UNCHANGED <<otherVars, env, loopVars, findings, report, storeVars, exported,
                   exception, raised_in, mainVars, struct_calls, struct_raised>>

\* research(), lines 188-191: the exporter writes the report file, or fails
ExportReport ==
    /\ pc = "export"
    /\ \E ok \in BOOLEAN :
          IF ok
          THEN /\ exported' = Append(exported, report[1])
               /\ pc' = "returned"
               /\ UNCHANGED <<exception, raised_in>>
          ELSE /\ Raise("OSError", "export")
               /\ UNCHANGED exported
    /\ UNCHANGED <<otherVars, env, loopVars, findings, report, storeVars, mainVars,
                   struct_calls, struct_raised>>

\* main.research, lines 65-66: research() returned
MainSuccess ==
    /\ pc = "returned"
    /\ console' = Append(console, <<"Research completed successfully!">>)
    /\ exit_code' = 0
    /\ pc' = "exit"
    /\ UNCHANGED <<otherVars, env, loopVars, findings, report, storeVars, exported,
                   exception, raised_in, struct_calls, struct_raised>>

\* main.research, lines 68-70: the handler prints the exception and exits 1;
\* an exception it does not catch ends the command with no message of main's
MainExcept ==
    /\ pc = "raised"
    /\ console' = IF Caught(exception)
                  THEN Append(console, <<"Error:", exception>>)
                  ELSE console
    /\ exit_code' = 1
    /\ pc' = "exit"
    /\ UNCHANGED <<otherVars, env, loopVars, findings, report, storeVars, exported,
                   exception, raised_in, struct_calls, struct_raised>>

Next ==
    \/ MainInitAgent
    \/ ExecutorPlanRaises
    \/ ExecutorFinish
    \/ ExecutorToolStep
    \/ ExecutorInvalidTool
    \/ ExecutorParseError
    \/ ExecutorStopped
    \/ CreateStructuredReport
    \/ SaveToKnowledgeBase
    \/ SkipSave
    \/ ExportReport
    \/ MainSuccess
    \/ MainExcept

Spec == Init /\ [][Next]_vars

\* The command is one sequential process: a step that can be taken is taken.
FairSpec == Spec /\ WF_vars(Next)

\* ------------------------------------------------------------------ claims
\* the loop of this invocation is over: it returned, or an exception left it
LoopOver == pc \notin {"main", "loop"} /\ raised_in # "init"

\* C1 (as claimed): when no completion of the loop holds a Final Answer (and
\* none fails), the loop ends after exactly max_iterations passes with the
\* forced answer.  The code breaks this where a tool raises (see C4).
C1_ExactlyMaxIterations ==
    (LoopOver /\ ~final_emitted /\ llm_failures = <<>>)
        => (iterations = max_iterations /\ findings = StoppedOutput)

\* C2: when the first completion of the loop is a final answer, that pass
\* ends the loop: one completion call, no pass counted, no tool called, and
\* the findings research() goes on with are that final answer's text.
C2_FirstCallFinalAnswer ==
    [][(pc = "loop" /\ llm_calls = 0) =>
        \A out \in FinalOutputs, net \in NetOutcomes :
          ExecutorPass(out, net)
              => (/\ pc' = "structure"
                  /\ findings' = out.text
                  /\ llm_calls' = 1
                  /\ tool_calls' = 0
                  /\ iterations' = 0)]_vars

C2_Witness ==
    /\ pc = "structure"
    /\ llm_calls = 1
    /\ tool_calls = 0
    /\ findings = FinalBodies[1]

\* C3 (as claimed): at the iteration cap the findings are the last non-empty
\* observation, or the fixed string when there is none.  (Every observation
\* of the model is non-empty, so the last one is the last non-empty one.)
C3_LastObservationOrFallback ==
    [][(pc = "loop" /\ ~ShouldContinue(iterations) /\ pc' = "structure")
          => findings' = (IF last_observation # <<>> THEN last_observation
                          ELSE StoppedOutput)]_vars

\* C3 (amended): at the iteration cap the findings are the fixed string
\* "Agent stopped due to iteration limit or time limit.", whatever the
\* observations were.
C3_ForcedAnswerIsFixed ==
    [][(pc = "loop" /\ ~ShouldContinue(iterations) /\ pc' = "structure")
          => findings' = StoppedOutput]_vars

C3_Witness ==
    /\ pc = "structure"
    /\ iterations = max_iterations
    /\ tool_calls > 0
    /\ findings = StoppedOutput

\* C4 (as claimed): no failure of a tool leaves the loop as an exception.
\* The code breaks this: google_search raises ImportError when
\* googlesearch-python is missing.
C4_ToolFailureIsObservation == raised_in # "loop_tool"

\* C5: a completion naming an action that is no registered tool gives the
\* not-a-valid-tool observation; the loop goes on, nothing is raised, no tool
\* is called and the pass counts against the cap.
C5_UnknownToolIsObservation ==
    [][pc = "loop" =>
        \A out \in {o \in ActionOutputs(env.subject) : ~InRegistry(o.tool)},
           net \in NetOutcomes :
          ExecutorPass(out, net)
              => (/\ pc' = "loop"
                  /\ exception' = "none"
                  /\ last_observation' = InvalidToolObservation(out.tool)
                  /\ tool_calls' = tool_calls
                  /\ iterations' = iterations + 1
                  /\ iterations' <= max_iterations)]_vars

C5_Witness ==
    /\ pc = "loop"
    /\ iterations = max_iterations
    /\ last_observation = InvalidToolObservation("wikipedia")

\* C6: a completion holding neither an action nor a final answer gives a
\* parse-failure observation; the loop goes on, nothing is raised, and the
\* passes, these included, never number more than max_iterations.
C6_ParseFailureIsObservation ==
    [][pc = "loop" =>
        \A out \in {NeitherOutput}, net \in NetOutcomes :
          ExecutorPass(out, net)
              => (/\ pc' = "loop"
                  /\ exception' = "none"
                  /\ last_observation' # <<>>
                  /\ last_observation' = ParseErrorObservation(ParseReAct(out))
                  /\ iterations' = iterations + 1
                  /\ iterations' <= max_iterations)]_vars

C6_Witness ==
    /\ pc = "loop"
    /\ iterations = max_iterations
    /\ tool_calls = 0
    /\ last_observation = <<"Invalid Format: Missing 'Action:' after 'Thought:'">>

\* C7 (as claimed, in an installation where every tool's dependency is
\* present, so that C4's exception is out of the picture): research() raises
\* only through a failed completion of the loop.
C7_OnlyCompletionFatal ==
    env.GOOGLESEARCH_AVAILABLE => raised_in \in {"none", "init", "loop_llm"}

\* C7 (amended): research() raises exactly through a failed completion of the
\* loop, an exception of a tool, a failure of the knowledge-base save or
\* persist, or a failure of the export; a parsing error and a failure of the
\* structuring completion never reach the caller, and the report is built
\* when the structuring completion raised.
C7_FatalPaths ==
    /\ raised_in \in {"none", "init", "loop_llm", "loop_tool", "save", "export"}
    /\ (raised_in = "loop_llm" <=> llm_failures # <<>>)
    /\ (struct_raised => report # <<>>)

C7_Witness ==
    /\ pc = "raised"
    /\ raised_in = "save"
    /\ struct_raised
    /\ env.GOOGLESEARCH_AVAILABLE

\* C8 (as claimed): an invocation that fails on a transient completion
\* failure has called the completion again at least once before failing.
C8_TransientIsRetried ==
    (raised_in = "loop_llm" /\ llm_failures[Len(llm_failures)] = "transient")
        => Len(llm_failures) >= 2

\* the two ends of the command
EndedWithReport ==
    /\ report # <<>>
    /\ exported = <<report[1]>>
    /\ console = << <<"Research completed successfully!">> >>
    /\ exit_code = 0
EndedWithError ==
    /\ exception # "none"
    /\ console = << <<"Error:", exception>> >>
    /\ exit_code = 1

\* C9: every run of the command ends, with a report and the success message
\* or with the error message of the exception raised and status 1, and with
\* exactly one of the two.
C9_Terminates ==
    <>(pc = "exit" /\ (EndedWithReport \/ EndedWithError)
                   /\ ~(EndedWithReport /\ EndedWithError))

C9_Witness ==
    /\ pc = "exit"
    /\ EndedWithError
    /\ raised_in = "export"
    /\ report # <<>>

\* C10: when the structuring completion raises, _create_structured_report
\* still returns a report with a non-empty summary and at least one section,
\* and raises nothing, whatever the subject, type and findings.
C10_FallbackReport ==
    struct_raised
        => (/\ raised_in # "structure"
            /\ report # <<>>
            /\ report[1].summary # <<>>
            /\ Len(report[1].sections) >= 1)

C10_Witness ==
    /\ struct_raised
    /\ findings = <<>>
    /\ report # <<>>
    /\ report[1].summary = <<"Research findings for">> \o env.subject

\* ------------------------------------------ the report synthesizer by itself
\* research() at line 181, the loop having returned with its first
\* completion: findings is whatever text that completion held
InitReport ==
    /\ env \in {e \in Envs : /\ e.api_key /\ ~e.no_save
                              /\ e.GOOGLESEARCH_AVAILABLE /\ e.TWEEPY_AVAILABLE
                              /\ e.twitter_bearer_token}
    /\ pc = "structure"
    /\ findings \in ReportTexts
    /\ llm_calls = 1
    /\ final_emitted = TRUE
    /\ iterations = 0 /\ last_observation = <<>> /\ tool_calls = 0
    /\ llm_failures = <<>>
    /\ report = <<>> /\ struct_calls = 0 /\ struct_raised = FALSE
    /\ kb_index = <<>> /\ persist_calls = 0 /\ kb_log = <<>>
    /\ exported = <<>> /\ exception = "none" /\ raised_in = "none"
    /\ console = <<>> /\ exit_code = -1
    /\ NoStoreCall /\ NoPersona /\ NoClients

NextReport == CreateStructuredReport

SpecReport == InitReport /\ [][NextReport]_vars

\* C11 (as claimed): whenever structuring fails, by a completion error or by
\* malformed output, the report has exactly one section titled "Research
\* Findings" holding the raw findings verbatim, and its summary is the first
\* 500 characters of the raw findings.
C11_FallbackSummaryIsPrefix ==
    report # <<>> =>
        /\ report[1].sections =
              << [title |-> "Research Findings", content |-> findings] >>
        /\ report[1].summary = Prefix(findings, SummaryLimit)

\* C11 (amended): the report always has exactly one section, titled "Research
\* Findings", holding the raw findings verbatim; its summary is the first 500
\* characters of the raw findings when the structuring completion returned
\* (whatever it returned), and "Research findings for <subject>" when the
\* completion raised.
C11_FallbackReport ==
    report # <<>> =>
        /\ Len(report[1].sections) = 1
        /\ report[1].sections[1].title = "Research Findings"
        /\ report[1].sections[1].content = findings
        /\ ~struct_raised =>
              /\ Len(report[1].summary) = Min(Len(findings), SummaryLimit)
              /\ \A i \in 1..Len(report[1].summary) :
                    report[1].summary[i] = findings[i]
        /\ struct_raised =>
              report[1].summary = <<"Research findings for">> \o env.subject

C11_Witness ==
    /\ report # <<>>
    /\ struct_raised
    /\ Len(findings) > SummaryLimit
    /\ report[1].sections[1].content = findings

\* two words of a text are on one line of it
OnOneLine(text, j, k) ==
    \A m \in (IF j < k THEN j ELSE k)..(IF j < k THEN k ELSE j) : text[m] # "\n"

\* C12 (as claimed): the sources of the report are exactly the words of the
\* findings that begin with "http", each with its trailing ".", ",", ";" and
\* ")" characters stripped, without duplicates.
C12_AllHttpTokens ==
    report # <<>> =>
        report[1].sources =
            {RStrip(findings[i]) :
                i \in {j \in 1..Len(findings) : StartsWithHttp(findings[j])}}

\* C12 (amended): the sources of the report are exactly the words that begin
\* with "http" and stand on a line of the findings in which "http://" or
\* "https://" occurs, each with its trailing ".", ",", ";" and ")" characters
\* stripped, without duplicates; "see https://a.com/x, https://a.com/x and
\* http://b.com)" gives {"https://a.com/x", "http://b.com"}.
C12_HttpWordsOfUrlLines ==
    report # <<>> =>
        /\ report[1].sources =
              {RStrip(findings[i]) :
                 i \in {j \in 1..Len(findings) :
                          /\ StartsWithHttp(findings[j])
                          /\ \E k \in 1..Len(findings) :
                                /\ OnOneLine(findings, j, k)
                                /\ ContainsScheme(findings[k])}}
        /\ findings = LinkedText =>
              report[1].sources = {"https://a.com/x", "http://b.com"}

C12_Witness ==
    /\ report # <<>>
    /\ findings = LinkedText
    /\ Cardinality(report[1].sources) = 2

\* C13 (as claimed): every research invocation that returns a report has
\* first written exactly one KnowledgeEntry (character_name = the subject,
\* source = "research_agent", content = the raw findings, a timestamp in its
\* metadata) and has called persist() after that write.
C13_EveryReportSaved ==
    pc = "returned" =>
        /\ Len(kb_log) = 2
        /\ kb_log[1][1] = "add_knowledge"
        /\ kb_log[2] = <<"persist">>

\* C13 (amended): every research invocation that runs with saving enabled
\* (save_to_kb, the default) and returns a report has first written exactly
\* one KnowledgeEntry (character_name = the subject, source =
\* "research_agent", content = the raw findings, a timestamp in its metadata)
\* and has called persist() once, after that write.
C13_ReportSavedWhenSaving ==
    (pc = "returned" /\ ~env.no_save) =>
        /\ Len(kb_log) = 2
        /\ kb_log[1][1] = "add_knowledge"
        /\ kb_log[1][2].character_name = env.subject
        /\ kb_log[1][2].source = "research_agent"
        /\ kb_log[1][2].content = findings
        /\ "timestamp" \in DOMAIN kb_log[1][2].metadata
        /\ kb_log[2] = <<"persist">>
        /\ persist_calls = 1

C13_Witness ==
    /\ pc = "returned"
    /\ ~env.no_save
    /\ findings \in FinalTexts \ {<<>>}
    /\ Len(kb_log) = 2
    /\ Len(kb_index) = 1

\* --------------------------------------------- the knowledge store by itself
\* character names as callers pass them: two names, and the empty string
KbNames == {<<"Alice">>, <<"Bob">>}
EmptyName == <<>>
\* the CharacterKnowledge entries callers add: plain ones, one whose text
\* holds the words "No knowledge found", two whose metadata mapping has a key
\* "character_name" or "source" of its own, and one with no text
KbEntries ==
    {[character_name |-> <<"Alice">>, source |-> "wiki",
      content |-> <<"lore">>, metadata |-> <<>>],
     [character_name |-> <<"Bob">>, source |-> "wiki",
      content |-> <<"lore">>, metadata |-> <<>>],
     [character_name |-> <<"Alice">>, source |-> "wiki",
      content |-> <<"No knowledge found", "in", "the", "archive">>,
      metadata |-> <<>>],
     [character_name |-> <<"Alice">>, source |-> "wiki",
      content |-> <<"lore">>, metadata |-> [character_name |-> <<"Bob">>]],
     [character_name |-> <<"Bob">>, source |-> "wiki",
      content |-> <<"lore">>, metadata |-> [source |-> "forum"]],
     [character_name |-> <<"Bob">>, source |-> "wiki",
      content |-> <<>>, metadata |-> <<>>]}
\* the lists add_knowledge_batch is called with
KbBatches ==
    UNION {[1..n -> {e \in KbEntries : e.metadata = <<>> /\ e.content = <<"lore">>}] :
             n \in 0..2}
\* the values of k: kb_search's --limit of 1, its default of 5, and the
\* max_results of get_character_knowledge
SearchLimits == {1, 5}
max_results == 20

\* VectorKnowledgeBase.add_knowledge_batch: add_knowledge, entry after entry
RECURSIVE add_knowledge_batch(_, _)
add_knowledge_batch(index, knowledge_list) ==
    IF knowledge_list = <<>> THEN index
    ELSE add_knowledge_batch(add_knowledge(index, Head(knowledge_list)),
                             Tail(knowledge_list))

\* search, line 100: `{"character_name": character_name} if character_name
\* else None`: there is a filter when the name is neither None nor empty
HasFilter(character_name) == character_name # None /\ character_name # <<>>

\* the chunks similarity_search_with_score may choose from
Matching(index, character_name) ==
    SelectSeq(index, LAMBDA c : \/ ~HasFilter(character_name)
                                \/ c.metadata.character_name = character_name)

\* the chunks at the positions S of a list, in the order of the list
Pick(list, S) ==
    [i \in 1..Cardinality(S) |->
        list[CHOOSE x \in S : Cardinality({y \in S : y < x}) = i - 1]]

\* VectorKnowledgeBase.search: what it may return, the k nearest of the
\* matching chunks (which those are is the embedding's matter: any k of
\* them), each as {"content", "metadata"}
search(index, character_name, k) ==
    {[i \in 1..Cardinality(S) |->
         [content |-> Pick(Matching(index, character_name), S)[i].text,
          metadata |-> Pick(Matching(index, character_name), S)[i].metadata]] :
       S \in {T \in SUBSET (1..Len(Matching(index, character_name))) :
                 Cardinality(T) = Min(k, Len(Matching(index, character_name)))}}

NoKnowledge(character_name) ==
    <<"No knowledge found for character:">> \o character_name

\* get_character_knowledge, lines 141-147: the numbered list of the results
RECURSIVE FormatResults(_, _)
FormatResults(results, i) ==
    IF i > Len(results) THEN <<>>
    ELSE <<ToString(i), "[Source:", results[i].metadata.source, "]">>
         \o results[i].content \o <<"\n">> \o FormatResults(results, i + 1)

\* VectorKnowledgeBase.get_character_knowledge on the results of its search
get_character_knowledge(character_name, results) ==
    IF results = <<>> THEN NoKnowledge(character_name)
    ELSE <<"Knowledge about">> \o character_name \o <<":", "\n">>
         \o FormatResults(results, 1)

\* VectorKnowledgeBase.delete_character: the index it leaves, and its prints
mut_delete_character_removes(index, character_name) ==
    SelectSeq(index, LAMBDA c : c.metadata.character_name # character_name)
delete_character(index, character_name) == index
DeleteNote == <<"Note: Full deletion requires recreating the collection">>
delete_character_prints(character_name) ==
    << <<"Deleting knowledge for:">> \o character_name, DeleteNote >>

\* no research command is run: the commands below are run on their own
researchVars == <<env, pc, loopVars, findings, report, exported, exception,
                  raised_in, mainVars, struct_calls, struct_raised>>
NoResearch ==
    /\ env \in {e \in Envs : /\ e.api_key /\ ~e.no_save
                              /\ e.GOOGLESEARCH_AVAILABLE /\ e.TWEEPY_AVAILABLE
                              /\ e.twitter_bearer_token}
    /\ pc = "idle"
    /\ findings = None
    /\ iterations = 0 /\ last_observation = <<>> /\ llm_calls = 0
    /\ tool_calls = 0 /\ llm_failures = <<>> /\ final_emitted = FALSE
    /\ report = <<>> /\ struct_calls = 0 /\ struct_raised = FALSE
    /\ exported = <<>> /\ exception = "none" /\ raised_in = "none"
    /\ console = <<>> /\ exit_code = -1

\* VectorKnowledgeBase() over a new persist directory
InitStore ==
    /\ NoResearch
    /\ kb_index = <<>> /\ persist_calls = 0 /\ kb_log = <<>>
    /\ NoStoreCall /\ NoPersona /\ NoClients

storeFrame == <<researchVars, persist_calls, kb_log, personaVars, clientVars>>

\* kb.add_knowledge(knowledge)
AddKnowledge ==
    \E knowledge \in KbEntries :
        /\ Len(add_knowledge(kb_index, knowledge)) <= MaxChunks
        /\ kb_index' = add_knowledge(kb_index, knowledge)
        /\ returned' = <<"add_knowledge">>
        /\ UNCHANGED <<storeFrame, stdout>>

\* kb.add_knowledge_batch(knowledge_list)
AddKnowledgeBatch ==
    \E knowledge_list \in KbBatches :
        /\ Len(add_knowledge_batch(kb_index, knowledge_list)) <= MaxChunks
        /\ kb_index' = add_knowledge_batch(kb_index, knowledge_list)
        /\ returned' = <<"add_knowledge_batch">>
        /\ UNCHANGED <<storeFrame, stdout>>

\* kb.search(query, character_name, k), as kb_search calls it: no
\* --character (None), a name, or the empty string
Search ==
    \E character_name \in KbNames \cup {EmptyName, None}, k \in SearchLimits :
        \E results \in search(kb_index, character_name, k) :
            /\ returned' = <<"search", character_name, results>>
            /\ UNCHANGED <<storeFrame, kb_index, stdout>>

\* kb.get_character_knowledge(character_name), as kb_info calls it
GetCharacterKnowledge ==
    \E character_name \in KbNames \cup {EmptyName} :
        \E results \in search(kb_index, character_name, max_results) :
            /\ returned' = <<"get_character_knowledge", character_name,
                             get_character_knowledge(character_name, results)>>
            /\ UNCHANGED <<storeFrame, kb_index, stdout>>

\* kb.delete_character(character_name)
DeleteCharacter ==
    \E character_name \in KbNames \cup {EmptyName} :
        /\ Len(stdout) < 2 * MaxDeletes
        /\ kb_index' = delete_character(kb_index, character_name)
        /\ stdout' = stdout \o delete_character_prints(character_name)
        /\ returned' = <<"delete_character", character_name>>
        /\ UNCHANGED storeFrame

NextStore ==
    \/ AddKnowledge
    \/ AddKnowledgeBatch
    \/ Search
    \/ GetCharacterKnowledge
    \/ DeleteCharacter

SpecStore == InitStore /\ [][NextStore]_vars

\* the chunks of the index that belong to a character
ChunksOf(character_name) ==
    {i \in 1..Len(kb_index) : kb_index[i].metadata.character_name = character_name}

\* C14 (as claimed): for every store content and every character name X
\* supplied as the filter, the empty string included, search(query,
\* character_name=X, k) returns no chunk whose metadata character_name
\* differs from X.
C14_SearchNeverLeaks ==
    (returned # <<>> /\ returned[1] = "search" /\ returned[2] # None) =>
        \A i \in 1..Len(returned[3]) :
            returned[3][i].metadata.character_name = returned[2]

\* C15 (as claimed): after any sequence of add_knowledge and
\* add_knowledge_batch calls, every chunk's character_name and source
\* metadata equal those of the entry it was split from, entries whose
\* metadata mapping has keys "character_name" or "source" included.
C15_ChunkMetadataOfEntry ==
    \A i \in 1..Len(kb_index) :
        /\ kb_index[i].metadata.character_name = kb_index[i].entry.character_name
        /\ kb_index[i].metadata.source = kb_index[i].entry.source

\* C16 (as claimed): get_character_knowledge(name) returns "No knowledge
\* found for character: <name>" whenever the store holds no chunk for that
\* character, the empty store included, and returns normally.
C16_NoKnowledgeSentinel ==
    (returned # <<>> /\ returned[1] = "get_character_knowledge"
       /\ ChunksOf(returned[2]) = {}) =>
        returned[3] = NoKnowledge(returned[2])

PersonaConfigs ==
    {[background_summary |-> <<>>, personality_traits |-> <<>>,
      speech_style |-> <<>>, custom_instructions |-> <<>>],
     [background_summary |-> <<"a", "court", "mage">>,
      personality_traits |-> <<"proud,", "curious">>,
      speech_style |-> <<>>, custom_instructions |-> <<"Never", "swear.">>]}
\* the stores a PersonaAgent is built over: empty, or holding what one or two
\* add_knowledge calls left
PersonaStores ==
    {<<>>} \cup {add_knowledge(<<>>, e) : e \in KbEntries}
           \cup {add_knowledge_batch(<<>>, l) : l \in KbBatches}
ChatInputs == {<<"hello">>, <<"who", "are", "you?">>}
ChatResponses == {<<"I", "am", "who", "I", "am.">>}
ComposeRequests ==
    {[content_type |-> "letter", topic |-> <<"birthday">>, recipient |-> r,
      tone |-> "characteristic"] : r \in {None, <<"Bob">>}}

\* "No knowledge found" in knowledge: the tokens in which these words occur
ContainsNoKnowledgeFound(knowledge) ==
    \E i \in 1..Len(knowledge) :
        knowledge[i] \in {"No knowledge found for character:", "No knowledge found"}

\* _load_character_knowledge, lines 134-150: the prose of the persona's fields
PersonaProse(character_name, persona_config) ==
    <<"Character:">> \o character_name
    \o (IF persona_config.background_summary # <<>>
        THEN <<"\n", "Background:">> \o persona_config.background_summary
        ELSE <<>>)
    \o (IF persona_config.personality_traits # <<>>
        THEN <<"\n", "Personality:">> \o persona_config.personality_traits
        ELSE <<>>)
    \o (IF persona_config.speech_style # <<>>
        THEN <<"\n", "Speech Style:">> \o persona_config.speech_style
        ELSE <<>>)
    \o (IF persona_config.custom_instructions # <<>>
        THEN <<"\n">> \o persona_config.custom_instructions
        ELSE <<>>)

\* PersonaAgent._load_character_knowledge on what the store returned
load_character_knowledge(knowledge, character_name, persona_config) ==
    IF ContainsNoKnowledgeFound(knowledge)
    THEN PersonaProse(character_name, persona_config)
    ELSE knowledge

\* ConversationBufferMemory: save_context after a completion, and clear
save_context(history, user_input, response) ==
    Append(history, [input |-> user_input, output |-> response])
mut_clear_keeps(history) == history
clear(history) == <<>>

\* the prompt of chat: PERSONA_PROMPT with its partial variables and the
\* history of the memory
chat_prompt(agent) ==
    [template |-> "PERSONA_PROMPT", character_name |-> agent.character_name,
     character_knowledge |-> agent.character_knowledge,
     history |-> agent.history]

\* the prompt of compose: CONTENT_GENERATION_PROMPT with its variables
compose_prompt(agent, request) ==
    [template |-> "CONTENT_GENERATION_PROMPT",
     character_name |-> agent.character_name,
     character_knowledge |-> agent.character_knowledge,
     content_type |-> request.content_type, topic |-> request.topic,
     tone |-> request.tone,
     recipient_context |-> IF request.recipient # None
                           THEN <<"addressed to">> \o request.recipient
                           ELSE <<>>]

InitPersona ==
    /\ NoResearch
    /\ kb_index \in PersonaStores
    /\ persist_calls = 0 /\ kb_log = <<>>
    /\ NoStoreCall /\ NoPersona /\ NoClients

personaFrame == <<researchVars, storeVars, kbVars, clientVars>>

\* PersonaAgent(character_name, persona_config=...): knowledge is what
\* get_character_knowledge returned, kept here next to the context built
\* from it
PersonaInit ==
    /\ persona = <<>>
    /\ \E character_name \in KbNames \cup {EmptyName},
          persona_config \in PersonaConfigs :
          \E results \in search(kb_index, character_name, max_results) :
              persona' =
                [character_name |-> character_name,
                 knowledge |-> get_character_knowledge(character_name, results),
                 character_knowledge |->
                     load_character_knowledge(
                         get_character_knowledge(character_name, results),
                         character_name, persona_config),
                 persona_config |-> persona_config,
                 history |-> <<>>]
    /\ UNCHANGED <<personaFrame, prompt, persona_calls, turns>>

\* PersonaAgent.chat: conversation.predict; the turn is saved to the memory
\* when the completion returns, and nothing is saved when it raises
Chat ==
    /\ persona # <<>>
    /\ persona_calls < MaxCalls
    /\ prompt' = chat_prompt(persona)
    /\ persona_calls' = persona_calls + 1
    /\ \E user_input \in ChatInputs, llm_raises \in BOOLEAN :
          IF llm_raises
          THEN UNCHANGED <<persona, turns>>
          ELSE \E response \in ChatResponses :
                  /\ persona' =
                        [persona EXCEPT !.history =
                            save_context(persona.history, user_input, response)]
                  /\ turns' = Append(turns, [input |-> user_input,
                                             output |-> response])
    /\ UNCHANGED personaFrame

\* PersonaAgent.compose: prompt | llm, invoked once; the memory is not used
Compose ==
    /\ persona # <<>>
    /\ persona_calls < MaxCalls
    /\ \E request \in ComposeRequests : prompt' = compose_prompt(persona, request)
    /\ persona_calls' = persona_calls + 1
    /\ UNCHANGED <<personaFrame, persona, turns>>

\* PersonaAgent.reset_conversation
ResetConversation ==
    /\ persona # <<>>
    /\ persona' = [persona EXCEPT !.history = clear(persona.history)]
    /\ turns' = <<>>
    /\ UNCHANGED <<personaFrame, prompt, persona_calls>>

NextPersona ==
    \/ PersonaInit
    \/ Chat
    \/ Compose
    \/ ResetConversation

SpecPersona == InitPersona /\ [][NextPersona]_vars

\* C17 (as claimed): the agent's character context is the store's content
\* whenever the store holds at least one chunk for the character, and is the
\* prose built from the CharacterPersona fields only when the store returned
\* the no-knowledge sentinel; stored knowledge whose text holds the words
\* "No knowledge found" is still used as the context.
C17_StoreContentPreferred ==
    persona # <<>> =>
        /\ ChunksOf(persona.character_name) # {} =>
              persona.character_knowledge = persona.knowledge
        /\ persona.character_knowledge # persona.knowledge =>
              persona.knowledge = NoKnowledge(persona.character_name)

Clients == 1..NClients
\* the entry run c saves: the findings of its own subject
ClientEntry(c, text) == ResearchKnowledge(<<SubjectNames[c]>>, text)
ClientTexts == {FinalBodies[1], FinalBodies[3]}

InitClients ==
    /\ NoResearch
    /\ kb_index = <<>> /\ persist_calls = 0 /\ kb_log = <<>>
    /\ NoStoreCall /\ NoPersona
    /\ disk = <<>>
    /\ clients = [c \in Clients |->
                    [pc |-> "new", index |-> <<>>, knowledge |-> <<>>,
                     found |-> 0]]

clientFrame == <<researchVars, storeVars, kbVars, personaVars>>

\* VectorKnowledgeBase.__init__, lines 45-50: Chroma(persist_directory=...)
ClientOpen(c) ==
    /\ clients[c].pc = "new"
    /\ clients' = [clients EXCEPT ![c].pc = "open", ![c].index = disk]
    /\ UNCHANGED <<clientFrame, disk>>

\* _save_to_knowledge_base, line 267: kb.add_knowledge(knowledge)
ClientAddKnowledge(c) ==
    /\ clients[c].pc = "open"
    /\ \E text \in ClientTexts :
          clients' = [clients EXCEPT
                        ![c].pc = "added",
                        ![c].knowledge = <<ClientEntry(c, text)>>,
                        ![c].index = add_knowledge(clients[c].index,
                                                   ClientEntry(c, text))]
    /\ UNCHANGED <<clientFrame, disk>>

\* _save_to_knowledge_base, line 268: kb.persist()
ClientPersist(c) ==
    /\ clients[c].pc = "added"
    /\ disk' = clients[c].index
    /\ clients' = [clients EXCEPT ![c].pc = "done"]
    /\ UNCHANGED clientFrame

\* kb.search on the run's own client, between its other calls
ClientSearch(c) ==
    /\ clients[c].pc \in {"open", "added"}
    /\ \E results \in search(clients[c].index, <<SubjectNames[c]>>, 5) :
          clients' = [clients EXCEPT ![c].found = Len(results)]
    /\ UNCHANGED <<clientFrame, disk>>

NextClients ==
    \/ \E c \in Clients : ClientOpen(c)
    \/ \E c \in Clients : ClientAddKnowledge(c)
    \/ \E c \in Clients : ClientPersist(c)
    \/ \E c \in Clients : ClientSearch(c)

SpecClients == InitClients /\ [][NextClients]_vars

\* C19 (as claimed): when several runs, each with its own VectorKnowledgeBase
\* over the same persisted collection, interleave add_knowledge, persist and
\* search, no write is lost or partial: once all have finished, the index
\* holds every chunk of every entry that was added, whole and with the
\* metadata of its entry.
C19_NoLostWrite ==
    (\A c \in Clients : clients[c].pc = "done") =>
        \A c \in Clients :
            \E i \in 1..Len(disk) :
                /\ disk[i].text = clients[c].knowledge[1].content
                /\ disk[i].metadata = chunk_metadata(clients[c].knowledge[1])

\* --------------------------------------------- the research command, again
\* C21 (as claimed): whatever the completions of the loop hold, malformed
\* ones included, one research invocation makes at most max_iterations tool
\* calls and at most max_iterations completion calls inside the loop, and
\* exactly one more completion call, to structure the report.
C21_BoundedCost ==
    (LoopOver /\ pc # "structure" /\ llm_failures = <<>>) =>
        /\ tool_calls <= max_iterations
        /\ llm_calls <= max_iterations
        /\ struct_calls = 1

\* C22: the report _create_structured_report returns does not depend on what
\* the structuring completion returned: for the same subject, type and
\* findings, any two responses lead to the same report, whose summary is the
\* first 500 characters of the findings, whose only section is "Research
\* Findings" with the findings verbatim and whose sources are those of the
\* findings.
C22_ReportIgnoresResponse ==
    [][pc = "structure" =>
        \A c1, c2 \in {c \in StructCompletions : ~c.raised} :
            CreateStructuredReportWith(c1) =>
                /\ CreateStructuredReportWith(c2)
                /\ report'[1].summary = Prefix(findings, SummaryLimit)
                /\ report'[1].sections =
                      << [title |-> "Research Findings", content |-> findings] >>
                /\ report'[1].sources = extract_sources(findings)]_vars

C22_Witness ==
    /\ report # <<>>
    /\ ~struct_raised
    /\ findings = LinkedText
    /\ report[1].summary = LinkedText

\* C23: an invocation run with save_to_kb = False (--no-save) makes no
\* add_knowledge and no persist call, so the index of the store is what it
\* was before the invocation (empty, here), and the report it returns has
\* been built and exported.
C23_NoSaveLeavesStore ==
    env.no_save =>
        /\ kb_log = <<>>
        /\ kb_index = <<>>
        /\ persist_calls = 0
        /\ pc = "returned" => (report # <<>> /\ exported = <<report[1]>>)

C23_Witness ==
    /\ env.no_save
    /\ pc = "returned"
    /\ findings \in FinalTexts \ {<<>>}
    /\ exported = <<report[1]>>
    /\ kb_index = <<>>

\* what _save_to_knowledge_base leaves when it has run to its end
Saved ==
    /\ kb_log = << <<"add_knowledge", ResearchKnowledge(env.subject, findings)>>,
                   <<"persist">> >>
    /\ kb_index = add_knowledge(<<>>, ResearchKnowledge(env.subject, findings))
    /\ persist_calls = 1

\* C24 (as claimed): research() runs its stages in the order loop, structure
\* report, save to the knowledge base and persist, export the report file,
\* and rolls nothing back: when the export fails the invocation raises
\* although the findings have been added to the store and persisted, and
\* when the loop or the save fails no report file is exported.
C24_SavedBeforeExport ==
    /\ raised_in = "export" => (pc \in {"raised", "exit"} /\ Saved)
    /\ raised_in \in {"loop_llm", "loop_tool", "save"} => exported = <<>>

\* C24 (amended): research() runs its stages in the order loop, structure
\* report, save to the knowledge base and persist (a stage that is skipped
\* when save_to_kb is False), export the report file, and rolls nothing back:
\* when the export fails the invocation raises, with no file exported,
\* although the findings of an invocation that saves have been added to the
\* store and persisted; when the loop or the save fails no report file is
\* exported.
C24_StagesInOrder ==
    /\ pc \in {"main", "loop", "structure"} =>
          (report = <<>> /\ kb_log = <<>> /\ exported = <<>>)
    /\ pc = "save" => (report # <<>> /\ kb_log = <<>> /\ exported = <<>>)
    /\ pc = "export" =>
          /\ report # <<>>
          /\ exported = <<>>
          /\ IF env.no_save THEN kb_log = <<>> ELSE Saved
    /\ exported # <<>> =>
          /\ exported = <<report[1]>>
          /\ IF env.no_save THEN kb_log = <<>> ELSE Saved
    /\ raised_in = "export" =>
          /\ pc \in {"raised", "exit"}
          /\ exception = "OSError"
          /\ exported = <<>>
          /\ IF env.no_save THEN kb_log = <<>> ELSE Saved
    /\ raised_in \in {"loop_llm", "loop_tool", "save"} => exported = <<>>
    /\ raised_in \in {"loop_llm", "loop_tool"} => (report = <<>> /\ kb_log = <<>>)

C24_Witness ==
    /\ raised_in = "export"
    /\ pc = "exit"
    /\ exit_code = 1
    /\ ~env.no_save
    /\ Len(kb_index) = 1
    /\ persist_calls = 1
    /\ exported = <<>>

====
